---- MODULE Spec2Model ----
(***************************************************************************)
(* A model of gowitness' "generate" command (src/cmd/generate.go): the     *)
(* store scan with the response-code filter, the two sort.Slice calls, the *)
(* page index loop, the in-place display projection and the render loop.   *)
(*                                                                         *)
(* Strings are sequences of byte values, so that strings.ToLower, Go's     *)
(* byte-wise string comparison and filepath.Base are computed, not         *)
(* assumed.                                                                *)
(***************************************************************************)
EXTENDS Integers, Sequences, FiniteSets, TLC

\* Largest number of entries in the store that is scanned.
MaxStore == 3
\* Largest value of the --page-size flag that is explored.
MaxPageSize == 2
\* Largest number of template/write failures injected into one run.
MaxFaults == 1

VARIABLES
    store,              \* the keys of the buntdb entries (a set; scanned in key order)
    includeErrors,      \* flag --include-errors
    pageSize,           \* flag --page-size
    pc,                 \* position in generateCmd.Run
    cursor,             \* number of entries tx.Ascend has handed to the callback
    screenshotEntries,  \* var screenshotEntries []storage.HTTResponse
    errorsIgnored,      \* var errorsIgnored
    err,                \* the error db.Db.View returned (TRUE: non-nil)
    lastSortIndex,      \* var lastSortIndex
    pageno,             \* var pageno
    pageCount,          \* pageCount := pageno
    pageIndex,          \* var pageIndex bytes.Buffer: the anchors written so far
    i,                  \* the loop variable of the two pagination loops
    pages,              \* the TemplateData values handed to tmplPage.Execute
    files,              \* the files ioutil.WriteFile created
    log,                \* the log lines at level info and above
    faults              \* failures injected so far

vars == << store, includeErrors, pageSize, pc, cursor, screenshotEntries,
           errorsIgnored, err, lastSortIndex, pageno, pageCount, pageIndex, i,
           pages, files, log, faults >>

----------------------------------------------------------------------------
(* Strings *)

\* s[k + j] is a UTF-8 continuation byte with a value in lo..hi.
Continues(s, k, j, lo, hi) ==
    k + j <= Len(s) /\ s[k + j] >= lo /\ s[k + j] <= hi

\* utf8.DecodeRuneInString(s[k:]): the rune that starts at byte k and its
\* width.  A byte that starts no well-formed encoding (a stray continuation
\* byte, an overlong form, a surrogate, a cut sequence) is utf8.RuneError,
\* U+FFFD, of width 1.
DecodeRune(s, k) ==
    LET b0 == s[k]
    IN  IF b0 < 128 THEN [rune |-> b0, width |-> 1]
        ELSE IF b0 >= 194 /\ b0 <= 223 /\ Continues(s, k, 1, 128, 191)
        THEN [rune |-> (b0 - 192) * 64 + (s[k + 1] - 128), width |-> 2]
        ELSE IF /\ b0 >= 224 /\ b0 <= 239
                /\ Continues(s, k, 1, IF b0 = 224 THEN 160 ELSE 128,
                                       IF b0 = 237 THEN 159 ELSE 191)
                /\ Continues(s, k, 2, 128, 191)
        THEN [rune |-> (b0 - 224) * 4096 + (s[k + 1] - 128) * 64 + (s[k + 2] - 128),
              width |-> 3]
        ELSE IF /\ b0 >= 240 /\ b0 <= 244
                /\ Continues(s, k, 1, IF b0 = 240 THEN 144 ELSE 128,
                                       IF b0 = 244 THEN 143 ELSE 191)
                /\ Continues(s, k, 2, 128, 191)
                /\ Continues(s, k, 3, 128, 191)
        THEN [rune |-> (b0 - 240) * 262144 + (s[k + 1] - 128) * 4096
                       + (s[k + 2] - 128) * 64 + (s[k + 3] - 128),
              width |-> 4]
        ELSE [rune |-> 65533, width |-> 1]

\* utf8.EncodeRune: the UTF-8 bytes of a rune.
EncodeRune(r) ==
    IF r < 128 THEN << r >>
    ELSE IF r < 2048 THEN << 192 + (r \div 64), 128 + (r % 64) >>
    ELSE IF r < 65536
    THEN << 224 + (r \div 4096), 128 + ((r \div 64) % 64), 128 + (r % 64) >>
    ELSE << 240 + (r \div 262144), 128 + ((r \div 4096) % 64),
            128 + ((r \div 64) % 64), 128 + (r % 64) >>

\* The lower-case entries of unicode.CaseRanges above U+007F, from the
\* simple lower-case mappings of the Unicode Character Database (14.0;
\* 15.0 has the same ones), in ascending order and disjoint:
\* << first rune, last rune, stride, delta >>.  A range of stride 2 is one
\* of alternating upper- and lower-case letters, of which the upper-case
\* ones are first, first + 2, ... .
LowerRanges ==
    <<
      << 192, 214, 1, 32 >>, << 216, 222, 1, 32 >>, << 256, 302, 2, 1 >>,
      << 304, 304, 1, -199 >>, << 306, 310, 2, 1 >>, << 313, 327, 2, 1 >>,
      << 330, 374, 2, 1 >>, << 376, 376, 1, -121 >>, << 377, 381, 2, 1 >>,
      << 385, 385, 1, 210 >>, << 386, 388, 2, 1 >>, << 390, 390, 1, 206 >>,
      << 391, 391, 1, 1 >>, << 393, 394, 1, 205 >>, << 395, 395, 1, 1 >>,
      << 398, 398, 1, 79 >>, << 399, 399, 1, 202 >>, << 400, 400, 1, 203 >>,
      << 401, 401, 1, 1 >>, << 403, 403, 1, 205 >>, << 404, 404, 1, 207 >>,
      << 406, 406, 1, 211 >>, << 407, 407, 1, 209 >>, << 408, 408, 1, 1 >>,
      << 412, 412, 1, 211 >>, << 413, 413, 1, 213 >>, << 415, 415, 1, 214 >>,
      << 416, 420, 2, 1 >>, << 422, 422, 1, 218 >>, << 423, 423, 1, 1 >>,
      << 425, 425, 1, 218 >>, << 428, 428, 1, 1 >>, << 430, 430, 1, 218 >>,
      << 431, 431, 1, 1 >>, << 433, 434, 1, 217 >>, << 435, 437, 2, 1 >>,
      << 439, 439, 1, 219 >>, << 440, 440, 1, 1 >>, << 444, 444, 1, 1 >>,
      << 452, 452, 1, 2 >>, << 453, 453, 1, 1 >>, << 455, 455, 1, 2 >>,
      << 456, 456, 1, 1 >>, << 458, 458, 1, 2 >>, << 459, 475, 2, 1 >>,
      << 478, 494, 2, 1 >>, << 497, 497, 1, 2 >>, << 498, 500, 2, 1 >>,
      << 502, 502, 1, -97 >>, << 503, 503, 1, -56 >>, << 504, 542, 2, 1 >>,
      << 544, 544, 1, -130 >>, << 546, 562, 2, 1 >>,
      << 570, 570, 1, 10795 >>, << 571, 571, 1, 1 >>,
      << 573, 573, 1, -163 >>, << 574, 574, 1, 10792 >>,
      << 577, 577, 1, 1 >>, << 579, 579, 1, -195 >>, << 580, 580, 1, 69 >>,
      << 581, 581, 1, 71 >>, << 582, 590, 2, 1 >>, << 880, 882, 2, 1 >>,
      << 886, 886, 1, 1 >>, << 895, 895, 1, 116 >>, << 902, 902, 1, 38 >>,
      << 904, 906, 1, 37 >>, << 908, 908, 1, 64 >>, << 910, 911, 1, 63 >>,
      << 913, 929, 1, 32 >>, << 931, 939, 1, 32 >>, << 975, 975, 1, 8 >>,
      << 984, 1006, 2, 1 >>, << 1012, 1012, 1, -60 >>,
      << 1015, 1015, 1, 1 >>, << 1017, 1017, 1, -7 >>,
      << 1018, 1018, 1, 1 >>, << 1021, 1023, 1, -130 >>,
      << 1024, 1039, 1, 80 >>, << 1040, 1071, 1, 32 >>,
      << 1120, 1152, 2, 1 >>, << 1162, 1214, 2, 1 >>,
      << 1216, 1216, 1, 15 >>, << 1217, 1229, 2, 1 >>,
      << 1232, 1326, 2, 1 >>, << 1329, 1366, 1, 48 >>,
      << 4256, 4293, 1, 7264 >>, << 4295, 4295, 1, 7264 >>,
      << 4301, 4301, 1, 7264 >>, << 5024, 5103, 1, 38864 >>,
      << 5104, 5109, 1, 8 >>, << 7312, 7354, 1, -3008 >>,
      << 7357, 7359, 1, -3008 >>, << 7680, 7828, 2, 1 >>,
      << 7838, 7838, 1, -7615 >>, << 7840, 7934, 2, 1 >>,
      << 7944, 7951, 1, -8 >>, << 7960, 7965, 1, -8 >>,
      << 7976, 7983, 1, -8 >>, << 7992, 7999, 1, -8 >>,
      << 8008, 8013, 1, -8 >>, << 8025, 8031, 2, -8 >>,
      << 8040, 8047, 1, -8 >>, << 8072, 8079, 1, -8 >>,
      << 8088, 8095, 1, -8 >>, << 8104, 8111, 1, -8 >>,
      << 8120, 8121, 1, -8 >>, << 8122, 8123, 1, -74 >>,
      << 8124, 8124, 1, -9 >>, << 8136, 8139, 1, -86 >>,
      << 8140, 8140, 1, -9 >>, << 8152, 8153, 1, -8 >>,
      << 8154, 8155, 1, -100 >>, << 8168, 8169, 1, -8 >>,
      << 8170, 8171, 1, -112 >>, << 8172, 8172, 1, -7 >>,
      << 8184, 8185, 1, -128 >>, << 8186, 8187, 1, -126 >>,
      << 8188, 8188, 1, -9 >>, << 8486, 8486, 1, -7517 >>,
      << 8490, 8490, 1, -8383 >>, << 8491, 8491, 1, -8262 >>,
      << 8498, 8498, 1, 28 >>, << 8544, 8559, 1, 16 >>,
      << 8579, 8579, 1, 1 >>, << 9398, 9423, 1, 26 >>,
      << 11264, 11311, 1, 48 >>, << 11360, 11360, 1, 1 >>,
      << 11362, 11362, 1, -10743 >>, << 11363, 11363, 1, -3814 >>,
      << 11364, 11364, 1, -10727 >>, << 11367, 11371, 2, 1 >>,
      << 11373, 11373, 1, -10780 >>, << 11374, 11374, 1, -10749 >>,
      << 11375, 11375, 1, -10783 >>, << 11376, 11376, 1, -10782 >>,
      << 11378, 11378, 1, 1 >>, << 11381, 11381, 1, 1 >>,
      << 11390, 11391, 1, -10815 >>, << 11392, 11490, 2, 1 >>,
      << 11499, 11501, 2, 1 >>, << 11506, 11506, 1, 1 >>,
      << 42560, 42604, 2, 1 >>, << 42624, 42650, 2, 1 >>,
      << 42786, 42798, 2, 1 >>, << 42802, 42862, 2, 1 >>,
      << 42873, 42875, 2, 1 >>, << 42877, 42877, 1, -35332 >>,
      << 42878, 42886, 2, 1 >>, << 42891, 42891, 1, 1 >>,
      << 42893, 42893, 1, -42280 >>, << 42896, 42898, 2, 1 >>,
      << 42902, 42920, 2, 1 >>, << 42922, 42922, 1, -42308 >>,
      << 42923, 42923, 1, -42319 >>, << 42924, 42924, 1, -42315 >>,
      << 42925, 42925, 1, -42305 >>, << 42926, 42926, 1, -42308 >>,
      << 42928, 42928, 1, -42258 >>, << 42929, 42929, 1, -42282 >>,
      << 42930, 42930, 1, -42261 >>, << 42931, 42931, 1, 928 >>,
      << 42932, 42946, 2, 1 >>, << 42948, 42948, 1, -48 >>,
      << 42949, 42949, 1, -42307 >>, << 42950, 42950, 1, -35384 >>,
      << 42951, 42953, 2, 1 >>, << 42960, 42960, 1, 1 >>,
      << 42966, 42968, 2, 1 >>, << 42997, 42997, 1, 1 >>,
      << 65313, 65338, 1, 32 >>, << 66560, 66599, 1, 40 >>,
      << 66736, 66771, 1, 40 >>, << 66928, 66938, 1, 39 >>,
      << 66940, 66954, 1, 39 >>, << 66956, 66962, 1, 39 >>,
      << 66964, 66965, 1, 39 >>, << 68736, 68786, 1, 64 >>,
      << 71840, 71871, 1, 32 >>, << 93760, 93791, 1, 32 >>,
      << 125184, 125217, 1, 34 >>
    >>

\* The binary search of unicode.ToLower in the case ranges: the index of
\* the range among LowerRanges[lo + 1 .. hi] that r lies in, 0 if none.
RECURSIVE FindRange(_, _, _)
FindRange(r, lo, hi) ==
    IF lo >= hi THEN 0
    ELSE LET m == lo + ((hi - lo) \div 2)
             c == LowerRanges[m + 1]
         IN  IF c[1] <= r /\ r <= c[2] THEN m + 1
             ELSE IF r < c[1] THEN FindRange(r, lo, m)
             ELSE FindRange(r, m + 1, hi)

\* unicode.ToLower: 'A'..'Z' become 'a'..'z' and every other ASCII rune is
\* itself; a rune above U+007F is looked up in the case ranges and, when it
\* is an upper-case letter of its range, moved by the delta of the range.
ToLowerRune(r) ==
    IF r <= 127 THEN (IF r >= 65 /\ r <= 90 THEN r + 32 ELSE r)
    ELSE LET k == FindRange(r, 0, Len(LowerRanges))
         IN  IF k = 0 THEN r
             ELSE IF (r - LowerRanges[k][1]) % LowerRanges[k][3] = 0
             THEN r + LowerRanges[k][4]
             ELSE r

\* strings.Map(unicode.ToLower, s[k:]): rune by rune, each rune lower-cased
\* and encoded again; a byte that is not valid UTF-8 comes out as U+FFFD.
RECURSIVE ToLowerFrom(_, _)
ToLowerFrom(s, k) ==
    IF k > Len(s) THEN << >>
    ELSE LET d == DecodeRune(s, k)
         IN  EncodeRune(ToLowerRune(d.rune)) \o ToLowerFrom(s, k + d.width)

\* strings.ToLower: a string of ASCII bytes only is lower-cased byte by byte
\* ('A'..'Z' become 'a'..'z'); any other string goes through strings.Map.
ToLower(s) ==
    IF \A k \in 1..Len(s) : s[k] < 128
    THEN [k \in 1..Len(s) |-> IF s[k] >= 65 /\ s[k] <= 90 THEN s[k] + 32 ELSE s[k]]
    ELSE ToLowerFrom(s, 1)

\* Go's  a < b  on strings: byte-wise lexicographic order.
StrLess(a, b) ==
    \E k \in 1..(Len(b)) :
        /\ k <= Len(a) + 1
        /\ \A m \in 1..(k - 1) : a[m] = b[m]
        /\ IF k = Len(a) + 1 THEN TRUE ELSE a[k] < b[k]

\* The string "server" the code compares lower-cased header keys with.
ServerKey == << 115, 101, 114, 118, 101, 114 >>

\* gwtmpl.PlaceHolderImage: a fixed reference that names no screenshot path.
PlaceHolderImage == << 100, 97, 116, 97, 58 >>

\* os.IsPathSeparator on a Unix build: '/'.
IsPathSeparator(c) == c = 47

\* filepath.Base: the last element of the path; trailing separators are
\* removed first, "" gives "." and a path of separators only gives "/".
Base(path) ==
    IF path = << >> THEN << 46 >>
    ELSE
        LET ends == { k \in 1..Len(path) : ~IsPathSeparator(path[k]) }
        IN  IF ends = {} THEN << 47 >>
            ELSE
                LET last == CHOOSE k \in ends : \A m \in ends : m <= k
                    seps == { k \in 1..last : IsPathSeparator(path[k]) }
                    from == IF seps = {} THEN 1
                            ELSE 1 + (CHOOSE k \in seps : \A m \in seps : m <= k)
                IN  SubSeq(path, from, last)

----------------------------------------------------------------------------
(* The store and the file system the run reads *)

Hdr(k, v) == [Key |-> k, Value |-> v]

HServer == << 83, 101, 114, 118, 101, 114 >>      \* "Server"
HSERVER == << 83, 69, 82, 86, 69, 82 >>           \* "SERVER"
HDate   == << 68, 97, 116, 101 >>                 \* "Date"
VNginx  == << 110, 103, 105, 110, 120 >>          \* "nginx"
VNGINX  == << 78, 71, 73, 78, 88 >>               \* "NGINX"
VApache == << 65, 112, 97, 99, 104, 101 >>        \* "Apache"
Vapache == << 97, 112, 97, 99, 104, 101 >>        \* "apache"
VAbyss  == << 65, 98, 121, 115, 115 >>            \* "Abyss"
TAGrave == << 195, 128 >>                         \* U+00C0, A with grave; lower case 195,160
TTimes  == << 195, 151 >>                         \* U+00D7, the multiplication sign
FileA   == << 115, 47, 97 >>                      \* "s/a"   on disk
FileB   == << 115, 47, 98 >>                      \* "s/b"   on disk
FileM   == << 115, 47, 109 >>                     \* "s/m"   not on disk
FileD   == << 100, 47, 99 >>                      \* "d/c"   in a directory that cannot be searched

Rec(url, code, title, file, headers) ==
    [URL |-> url, ResponseCode |-> code, PageTitle |-> title,
     ScreenshotFile |-> file, Headers |-> headers]

\* The value stored under a key that is not valid JSON.
Malformed == [malformed |-> TRUE]

\* The values the store may hold, by key.  tx.Ascend("") visits the entries
\* in ascending key order.
StoreValue(key) ==
    CASE key = 1 -> Rec(1, 200, << >>, FileA, << Hdr(HServer, VNginx) >>)
      [] key = 2 -> Rec(2, 200, << >>, FileM, << Hdr(ServerKey, VApache) >>)
      [] key = 3 -> Rec(3, 299, << >>, FileB,
                        << Hdr(HServer, VNginx), Hdr(HSERVER, VAbyss) >>)
      [] key = 4 -> Rec(4, 200, << 66 >>, FileD, << >>)
      [] key = 5 -> Rec(5, 204, << 97 >>, FileA,
                        << Hdr(HDate, VNginx), Hdr(HServer, VNginx) >>)
      [] key = 6 -> Rec(6, 199, TTimes, FileM, << Hdr(HServer, Vapache) >>)
      [] key = 7 -> Rec(7, 300, TAGrave, FileB, << Hdr(HDate, Vapache) >>)
      [] key = 8 -> Rec(8, 200, << >>, FileB,
                        << Hdr(HDate, Vapache), Hdr(ServerKey, VNGINX) >>)
      [] key = 9 -> Malformed

Keys == { 1, 2, 3, 4, 5, 6, 7, 8, 9 }

\* os.Stat on the file system of the run: "ok", "ENOENT" (os.IsNotExist
\* holds of the error) or "EACCES" (an error os.IsNotExist does not hold of).
Stat(path) ==
    IF path \in { FileA, FileB } THEN "ok"
    ELSE IF path = FileD THEN "EACCES"
    ELSE "ENOENT"

\* The keys of a store in the order tx.Ascend visits them.
RECURSIVE AscendOrder(_)
AscendOrder(S) ==
    IF S = {} THEN << >>
    ELSE LET k == CHOOSE x \in S : \A y \in S : x <= y
         IN  << k >> \o AscendOrder(S \ { k })

----------------------------------------------------------------------------
(* The load and filter scan: the tx.Ascend callback *)

\* json.Unmarshal of a stored value into storage.HTTResponse.
Unmarshal(value) ==
    IF value = Malformed THEN [ok |-> FALSE, data |-> Malformed]
    ELSE [ok |-> TRUE, data |-> value]

\* The guard of the placeholder substitution: os.IsNotExist(err) of os.Stat.
IsNotExist(path) == Stat(path) = "ENOENT"

\* The screenshot check: a record whose file does not exist gets the
\* placeholder; any other outcome of os.Stat leaves the record as it is.
WithPlaceholder(data) ==
    IF IsNotExist(data.ScreenshotFile)
    THEN [data EXCEPT !.ScreenshotFile = PlaceHolderImage]
    ELSE data

\* The response-code test with an inclusive upper bound.
IsSuccessInclusive(code) == code >= 200 /\ code <= 300

\* data.ResponseCode >= 200 && data.ResponseCode < 300
IsSuccess(code) == code >= 200 /\ code < 300

\* The branch that appends the record to screenshotEntries.
IsKept(inc, data) == inc \/ IsSuccess(data.ResponseCode)

\* The change of errorsIgnored for one record.
IgnoredDelta(inc, data) == IF IsKept(inc, data) THEN 0 ELSE 1

Init ==
    /\ store \in { S \in SUBSET Keys : Cardinality(S) <= MaxStore }
    /\ includeErrors \in BOOLEAN
    /\ pageSize \in 1..MaxPageSize
    /\ pc = "view"
    /\ cursor = 0
    /\ screenshotEntries = << >>
    /\ errorsIgnored = 0
    /\ err = FALSE
    /\ lastSortIndex = 0
    /\ pageno = 0
    /\ pageCount = 0
    /\ pageIndex = << >>
    /\ i = 0
    /\ pages = << >>
    /\ files = {}
    /\ log = << >>
    /\ faults = 0

\* db.Db.View opens the read-only transaction and runs the callback.
ViewBegin ==
    /\ pc = "view"
    /\ pc' = "scan"
    /\ UNCHANGED << store, includeErrors, pageSize, cursor, screenshotEntries,
                    errorsIgnored, err, lastSortIndex, pageno, pageCount,
                    pageIndex, i, pages, files, log, faults >>

\* db.Db.View fails to open the transaction: the callback never runs and
\* err is set; the code goes on to the sorts before it looks at err.
ViewFails ==
    /\ pc = "view"
    /\ err' = TRUE
    /\ pc' = "sortTitle"
    /\ UNCHANGED << store, includeErrors, pageSize, cursor, screenshotEntries,
                    errorsIgnored, lastSortIndex, pageno, pageCount,
                    pageIndex, i, pages, files, log, faults >>

\* One call of the tx.Ascend callback on an entry that decodes.
ScanEntry ==
    /\ pc = "scan"
    /\ cursor < Cardinality(store)
    /\ LET key == AscendOrder(store)[cursor + 1]
           res == Unmarshal(StoreValue(key))
       IN  /\ res.ok
           /\ LET data == WithPlaceholder(res.data)
              IN  /\ screenshotEntries' =
                        IF IsKept(includeErrors, data)
                        THEN Append(screenshotEntries, data)
                        ELSE screenshotEntries
                  /\ errorsIgnored' = errorsIgnored + IgnoredDelta(includeErrors, data)
    /\ cursor' = cursor + 1
    /\ UNCHANGED << store, includeErrors, pageSize, pc, err, lastSortIndex,
                    pageno, pageCount, pageIndex, i, pages, files, log, faults >>

\* One call of the tx.Ascend callback on an entry json.Unmarshal rejects:
\* log.Fatal ends the process.
ScanFatal ==
    /\ pc = "scan"
    /\ cursor < Cardinality(store)
    /\ LET key == AscendOrder(store)[cursor + 1]
       IN  /\ ~Unmarshal(StoreValue(key)).ok
           /\ log' = Append(log, [level |-> "fatal", stage |-> "decode", key |-> key])
    /\ pc' = "fatal"
    /\ UNCHANGED << store, includeErrors, pageSize, cursor, screenshotEntries,
                    errorsIgnored, err, lastSortIndex, pageno, pageCount,
                    pageIndex, i, pages, files, faults >>

\* tx.Ascend has visited every entry; the callback of View returns nil.
ViewReturn ==
    /\ pc = "scan"
    /\ cursor = Cardinality(store)
    /\ pc' = "sortTitle"
    /\ UNCHANGED << store, includeErrors, pageSize, cursor, screenshotEntries,
                    errorsIgnored, err, lastSortIndex, pageno, pageCount,
                    pageIndex, i, pages, files, log, faults >>

----------------------------------------------------------------------------
(* The two sorts *)

\* The permutations of 1..n.
IndexPerms(n) ==
    { p \in [1..n -> 1..n] : \A a, b \in 1..n : a # b => p[a] # p[b] }

\* The arrangements of the elements of s.
Arrangements(s) ==
    { [k \in 1..Len(s) |-> s[p[k]]] : p \in IndexPerms(Len(s)) }

\* The comparator of the first sort.
TitleLess(a, b) == StrLess(ToLower(a.PageTitle), ToLower(b.PageTitle))

\* sort.Slice(s, less) with the title comparator.  "The sort is not
\* guaranteed to be stable", so every arrangement of s in which no element
\* is less than one before it is a possible result.
SortSliceByTitle(s) ==
    { t \in Arrangements(s) :
        \A a, b \in 1..Len(s) : a < b => ~TitleLess(t[b], t[a]) }

\* The scan for lastSortIndex: the index of the first record with a
\* non-empty title; 0 when the loop never breaks.
FindLastSortIndex(s) ==
    LET titled == { k \in 1..Len(s) : s[k].PageTitle # << >> }
    IN  IF titled = {} THEN 0
        ELSE (CHOOSE k \in titled : \A m \in titled : k <= m) - 1

\* The loop over a record's headers in the second comparator, with a break
\* after the first match.
RECURSIVE FirstServerScan(_, _)
FirstServerScan(headers, k) ==
    IF k > Len(headers) THEN << >>
    ELSE IF ToLower(headers[k].Key) = ServerKey THEN ToLower(headers[k].Value)
    ELSE FirstServerScan(headers, k + 1)

FirstServerValue(headers) == FirstServerScan(headers, 1)

\* The loop over a record's headers in the second comparator: every header
\* whose lower-cased key is "server" overwrites the value found so far.
RECURSIVE ServerScan(_, _, _)
ServerScan(headers, k, acc) ==
    IF k > Len(headers) THEN acc
    ELSE ServerScan(headers, k + 1,
                    IF ToLower(headers[k].Key) = ServerKey
                    THEN ToLower(headers[k].Value)
                    ELSE acc)

\* server_i / server_j of the second comparator.
ServerValue(headers) == ServerScan(headers, 1, << >>)

\* The comparator of the second sort.
ServerLess(a, b) == StrLess(ServerValue(a.Headers), ServerValue(b.Headers))

\* sort.Slice(s, less) with the server header comparator: any arrangement
\* of s in which no element is less than one before it.
SortSliceByServer(s) ==
    { t \in Arrangements(s) :
        \A a, b \in 1..Len(s) : a < b => ~ServerLess(t[b], t[a]) }

\* sort.Slice(screenshotEntries, ...) by page title.
SortByPageTitle ==
    /\ pc = "sortTitle"
    /\ screenshotEntries' \in SortSliceByTitle(screenshotEntries)
    /\ pc' = "findIndex"
    /\ UNCHANGED << store, includeErrors, pageSize, cursor, errorsIgnored, err,
                    lastSortIndex, pageno, pageCount, pageIndex, i, pages,
                    files, log, faults >>

\* The loop that sets lastSortIndex.
ScanLastSortIndex ==
    /\ pc = "findIndex"
    /\ lastSortIndex' = FindLastSortIndex(screenshotEntries)
    /\ pc' = "sortServer"
    /\ UNCHANGED << store, includeErrors, pageSize, cursor, screenshotEntries,
                    errorsIgnored, err, pageno, pageCount, pageIndex, i, pages,
                    files, log, faults >>

\* sort.Slice(screenshotEntries[:lastSortIndex], ...) by server header.
SortByServerHeader ==
    /\ pc = "sortServer"
    /\ \E t \in SortSliceByServer(SubSeq(screenshotEntries, 1, lastSortIndex)) :
          screenshotEntries' =
              t \o SubSeq(screenshotEntries, lastSortIndex + 1, Len(screenshotEntries))
    /\ pc' = "check"
    /\ UNCHANGED << store, includeErrors, pageSize, cursor, errorsIgnored, err,
                    lastSortIndex, pageno, pageCount, pageIndex, i, pages,
                    files, log, faults >>

----------------------------------------------------------------------------
(* The checks between the sorts and the paginator *)

\* The empty check with a strict comparison.
IsEmptyStrict(entries) == Len(entries) < 0

\* len(screenshotEntries) <= 0
IsEmpty(entries) == Len(entries) <= 0

\* if err != nil { log.Fatal(err) }
FatalOnViewError ==
    /\ pc = "check"
    /\ err
    /\ log' = Append(log, [level |-> "fatal", stage |-> "view", key |-> 0])
    /\ pc' = "fatal"
    /\ UNCHANGED << store, includeErrors, pageSize, cursor, screenshotEntries,
                    errorsIgnored, err, lastSortIndex, pageno, pageCount,
                    pageIndex, i, pages, files, faults >>

\* if len(screenshotEntries) <= 0 { log.Error(...); return }
NoEntries ==
    /\ pc = "check"
    /\ ~err
    /\ IsEmpty(screenshotEntries)
    /\ log' = Append(log, [level |-> "error", stage |-> "empty",
                           count |-> Len(screenshotEntries)])
    /\ pc' = "halted"
    /\ UNCHANGED << store, includeErrors, pageSize, cursor, screenshotEntries,
                    errorsIgnored, err, lastSortIndex, pageno, pageCount,
                    pageIndex, i, pages, files, faults >>

\* The template is parsed (a constant text: parsing it cannot fail), pageno
\* and the loop variable of the page index loop are set to 0.
ParseTemplate ==
    /\ pc = "check"
    /\ ~err
    /\ ~IsEmpty(screenshotEntries)
    /\ pageno' = 0
    /\ i' = 0
    /\ pc' = "index"
    /\ UNCHANGED << store, includeErrors, pageSize, cursor, screenshotEntries,
                    errorsIgnored, err, lastSortIndex, pageCount, pageIndex,
                    pages, files, log, faults >>

----------------------------------------------------------------------------
(* The paginator and the renderer *)

\* fmt.Sprintf("page-%v.html", n): the name is kept as its three parts.
PageFile(n) == << "page-", n, ".html" >>

\* fmt.Sprintf("%v/page-%v.html", reportDir, n) with reportDir = ".".
ReportFile(n) == << "./" >> \o PageFile(n)

\* The anchor the page index loop writes for one page.
IndexAnchor(n) == [href |-> PageFile(n), label |-> n]

\* The condition of the two pagination loops with one more iteration at
\* the end of the list.
LoopCondInclusive(k, n) == k <= n

\* The condition of the two pagination loops: i < len(screenshotEntries).
LoopCond(k, n) == k < n

\* The target of the Prev link computed without the wrap-around term.
PrevTargetNoWrap(p, count) == IF p = 0 THEN 0 ELSE p - 1

\* (pageno + pageCount - 1) % pageCount
PrevTarget(p, count) == (p + count - 1) % count

\* (pageno + 1) % pageCount
NextTarget(p, count) == (p + 1) % count

\* The slice of a page whose last, shorter page is cut one record short.
PageSliceShort(entries, k, size) ==
    LET n == IF size < Len(entries) - k THEN size ELSE Len(entries) - k - 1
    IN  SubSeq(entries, k + 1, k + n)

\* screenshotEntries[i:i+end] with end = min(pageSize, len - i).
PageSlice(entries, k, size) ==
    LET n == IF size < Len(entries) - k THEN size ELSE Len(entries) - k
    IN  SubSeq(entries, k + 1, k + n)

\* The in-place display projection of one record: the screenshot path is
\* cut to its base name unless it is the placeholder, and only the headers
\* whose lower-cased key is "server" stay.
Project(screen) ==
    [screen EXCEPT
        !.ScreenshotFile = IF screen.ScreenshotFile # PlaceHolderImage
                           THEN Base(screen.ScreenshotFile)
                           ELSE screen.ScreenshotFile,
        !.Headers = SelectSeq(screen.Headers,
                              LAMBDA h : ToLower(h.Key) = ServerKey)]

\* One iteration of the page index loop.
IndexStep ==
    /\ pc = "index"
    /\ LoopCond(i, Len(screenshotEntries))
    /\ pageIndex' = Append(pageIndex, IndexAnchor(pageno))
    /\ pageno' = pageno + 1
    /\ i' = i + pageSize
    /\ UNCHANGED << store, includeErrors, pageSize, pc, cursor, screenshotEntries,
                    errorsIgnored, err, lastSortIndex, pageCount, pages, files,
                    log, faults >>

\* The page index loop ends: pageCount := pageno; pageno = 0.
IndexDone ==
    /\ pc = "index"
    /\ ~LoopCond(i, Len(screenshotEntries))
    /\ pageCount' = pageno
    /\ pageno' = 0
    /\ pc' = "project"
    /\ UNCHANGED << store, includeErrors, pageSize, cursor, screenshotEntries,
                    errorsIgnored, err, lastSortIndex, pageIndex, i, pages,
                    files, log, faults >>

\* The loop that rewrites every record for display; reportDir = ".".
ProjectAll ==
    /\ pc = "project"
    /\ screenshotEntries' =
          [k \in 1..Len(screenshotEntries) |-> Project(screenshotEntries[k])]
    /\ i' = 0
    /\ pc' = "render"
    /\ UNCHANGED << store, includeErrors, pageSize, cursor, errorsIgnored, err,
                    lastSortIndex, pageno, pageCount, pageIndex, pages, files,
                    log, faults >>

\* The TemplateData of the page the render loop is at.
TemplateData ==
    [ScreenShots |-> PageSlice(screenshotEntries, i, pageSize),
     PageIndex |-> pageIndex,
     PageCount |-> Len(screenshotEntries),
     PageNext |-> [id |-> "next-page", href |-> PageFile(NextTarget(pageno, pageCount))],
     PagePrev |-> [id |-> "prev-page", href |-> PageFile(PrevTarget(pageno, pageCount))],
     PageNumber |-> pageno,
     ErrorsIgnored |-> errorsIgnored]

\* The outcomes of ioutil.WriteFile: the file is written; os.OpenFile
\* fails and there is no file; or the file is created (and truncated) and
\* Write or Close fails, which leaves the file empty or cut short.
WriteOutcomes == { "written", "notCreated", "cutShort" }

\* One iteration of the render loop.  tmplPage.Execute and ioutil.WriteFile
\* may each fail; both results are discarded.  A failed Execute leaves an
\* incomplete page in the buffer, which is written all the same.
RenderPage ==
    /\ pc = "render"
    /\ LoopCond(i, Len(screenshotEntries))
    /\ \E executeOk \in BOOLEAN, write \in WriteOutcomes :
          LET n == (IF executeOk THEN 0 ELSE 1) + (IF write = "written" THEN 0 ELSE 1)
              name == ReportFile(pageno)
          IN  /\ faults + n <= MaxFaults
              /\ faults' = faults + n
              /\ files' =
                    IF write = "notCreated" THEN files
                    ELSE { f \in files : f.name # name } \cup
                         { [name |-> name, data |-> TemplateData,
                            complete |-> executeOk /\ write = "written"] }
    /\ pages' = Append(pages, TemplateData)
    /\ pageno' = pageno + 1
    /\ i' = i + pageSize
    /\ UNCHANGED << store, includeErrors, pageSize, pc, cursor, screenshotEntries,
                    errorsIgnored, err, lastSortIndex, pageCount, pageIndex, log >>

\* The render loop ends: log.Info("Report generated").
Finish ==
    /\ pc = "render"
    /\ ~LoopCond(i, Len(screenshotEntries))
    /\ log' = Append(log, [level |-> "info", stage |-> "done",
                           file |-> PageFile(0)])
    /\ pc' = "done"
    /\ UNCHANGED << store, includeErrors, pageSize, cursor, screenshotEntries,
                    errorsIgnored, err, lastSortIndex, pageno, pageCount,
                    pageIndex, i, pages, files, faults >>

Next ==
    \/ ViewBegin
    \/ ViewFails
    \/ ScanEntry
    \/ ScanFatal
    \/ ViewReturn
    \/ SortByPageTitle
    \/ ScanLastSortIndex
    \/ SortByServerHeader
    \/ FatalOnViewError
    \/ NoEntries
    \/ ParseTemplate
    \/ IndexStep
    \/ IndexDone
    \/ ProjectAll
    \/ RenderPage
    \/ Finish

Spec == Init /\ [][Next]_vars

\* The run is sequential and nothing it waits for can block it for ever:
\* whenever a step is possible, a step is taken.
FairSpec == Spec /\ WF_vars(Next)

Terminated == pc \in { "done", "halted", "fatal" }

----------------------------------------------------------------------------
(* Vocabulary of the properties *)

\* ceil(n / p) for p > 0
CeilDiv(n, p) == (n + p - 1) \div p

Min2(a, b) == IF a < b THEN a ELSE b

\* The concatenation of the record slices of a sequence of pages.
RECURSIVE Flatten(_)
Flatten(ps) ==
    IF ps = << >> THEN << >> ELSE Head(ps).ScreenShots \o Flatten(Tail(ps))

\* The page a link names.
Target(link) == link.href[2]

\* The keys of the store whose record the filter is to keep.
WantedKeys ==
    IF includeErrors THEN AscendOrder(store)
    ELSE SelectSeq(AscendOrder(store),
                   LAMBDA k : StoreValue(k).ResponseCode \in 200..299)

\* The position of a record in the order the scan visited it.
ScanPosition(url) ==
    CHOOSE k \in 1..Cardinality(store) : AscendOrder(store)[k] = url

\* The indices of the headers whose key is "server" in any case.
ServerIndices(headers) ==
    { k \in 1..Len(headers) : ToLower(headers[k].Key) = ServerKey }

\* The lower-cased value of the first "server" header, "" if there is none.
FirstServerOf(headers) ==
    IF ServerIndices(headers) = {} THEN << >>
    ELSE ToLower(headers[CHOOSE k \in ServerIndices(headers) :
                            \A m \in ServerIndices(headers) : k <= m].Value)

\* The lower-cased value of the last "server" header, "" if there is none.
LastServerOf(headers) ==
    IF ServerIndices(headers) = {} THEN << >>
    ELSE ToLower(headers[CHOOSE k \in ServerIndices(headers) :
                            \A m \in ServerIndices(headers) : m <= k].Value)

\* The scan has visited every entry and the filter kept none.
EmptyAfterScan ==
    /\ pc \notin { "view", "scan" }
    /\ ~err
    /\ cursor = Cardinality(store)
    /\ Len(screenshotEntries) = 0

----------------------------------------------------------------------------
(* C1: for N >= 1 kept records and page size P >= 1 the render loop emits *)
(* ceil(N / P) pages numbered from 0, page p holds the records            *)
(* p*P .. min(N, (p+1)*P) - 1 of the sorted list, and the pages put       *)
(* together in page order are the sorted list: every kept record once.    *)
PaginationLaw ==
    pc \in { "render", "done" } =>
        LET N == Len(screenshotEntries)
            P == pageSize
        IN  /\ \A k \in 1..Len(pages) :
                  LET p == k - 1
                      hi == Min2(N, (p + 1) * P)
                  IN  /\ pages[k].PageNumber = p
                      /\ p * P < N
                      /\ pages[k].ScreenShots =
                            [m \in 1..(hi - p * P) |-> screenshotEntries[p * P + m]]
            /\ pc = "done" =>
                  /\ Len(pages) = CeilDiv(N, P)
                  /\ Flatten(pages) = screenshotEntries
                  /\ \A a, b \in 1..N :
                        a # b => screenshotEntries[a].URL # screenshotEntries[b].URL
                  /\ { screenshotEntries[k].URL : k \in 1..N } =
                        { WantedKeys[k] : k \in 1..Len(WantedKeys) }

\* A run of three kept records with page size two: two pages, of 2 and 1.
PaginationWitness ==
    /\ pc = "done"
    /\ Len(screenshotEntries) = 3
    /\ pageSize = 2
    /\ Len(pages) = 2
    /\ Len(pages[1].ScreenShots) = 2
    /\ Len(pages[2].ScreenShots) = 1

(* C2: after the scan, without --include-errors the kept list holds       *)
(* exactly the records with a response code in [200, 300), in scan order, *)
(* and errorsIgnored counts the others; with --include-errors every       *)
(* record is kept and errorsIgnored is 0; kept + ignored = scanned.       *)
FilterLaw ==
    /\ pc = "scan" => Len(screenshotEntries) + errorsIgnored = cursor
    /\ (pc = "sortTitle" /\ ~err) =>
          /\ [k \in 1..Len(screenshotEntries) |-> screenshotEntries[k].URL] = WantedKeys
          /\ \A k \in 1..Len(screenshotEntries) :
                LET e == screenshotEntries[k]
                    v == StoreValue(e.URL)
                IN  /\ e.ResponseCode = v.ResponseCode
                    /\ e.PageTitle = v.PageTitle
                    /\ e.Headers = v.Headers
                    /\ ~includeErrors => e.ResponseCode >= 200 /\ e.ResponseCode < 300
          /\ errorsIgnored = Cardinality(store) - Len(WantedKeys)
          /\ includeErrors =>
                errorsIgnored = 0 /\ Len(screenshotEntries) = Cardinality(store)
          /\ Len(screenshotEntries) + errorsIgnored = Cardinality(store)

\* A scan that kept one record (code 299) and ignored two (199 and 300).
FilterWitness ==
    /\ pc = "sortTitle"
    /\ ~err
    /\ ~includeErrors
    /\ store = { 3, 6, 7 }
    /\ Len(screenshotEntries) = 1
    /\ errorsIgnored = 2

(* C3: on every page p of pageCount pages the Prev link names page p - 1  *)
(* (the last page for p = 0) and the Next link names page p + 1 (page 0   *)
(* for the last page); both name an emitted page and undo each other.     *)
NavigationLaw ==
    pc \in { "render", "done" } =>
        /\ pageCount >= 1
        /\ \A k \in 1..Len(pages) :
              LET p == pages[k].PageNumber
                  prev == Target(pages[k].PagePrev)
                  next == Target(pages[k].PageNext)
              IN  /\ prev \in 0..(pageCount - 1)
                  /\ next \in 0..(pageCount - 1)
                  /\ prev = (IF p = 0 THEN pageCount - 1 ELSE p - 1)
                  /\ next = (IF p = pageCount - 1 THEN 0 ELSE p + 1)
                  /\ pages[k].PagePrev.href = PageFile(prev)
                  /\ pages[k].PageNext.href = PageFile(next)
                  /\ pc = "done" =>
                        /\ Len(pages) = pageCount
                        /\ pages[prev + 1].PageNumber = prev
                        /\ pages[next + 1].PageNumber = next
                        /\ Target(pages[prev + 1].PageNext) = p
                        /\ Target(pages[next + 1].PagePrev) = p

\* A finished run of three pages: page 0 links back to page 2, page 2 on to 0.
NavigationWitness ==
    /\ pc = "done"
    /\ pageCount = 3
    /\ Target(pages[1].PagePrev) = 2
    /\ Target(pages[3].PageNext) = 0

(* C4: after the two sorts the records without a title are a prefix of    *)
(* the list, in ascending order of their lower-cased server header, and   *)
(* lastSortIndex is the number of records without a title.                *)
UntitledPrefixSorted ==
    pc = "check" =>
        LET untitled == { k \in 1..Len(screenshotEntries) :
                             screenshotEntries[k].PageTitle = << >> }
        IN  /\ untitled = 1..Cardinality(untitled)
            /\ lastSortIndex = Cardinality(untitled)
            /\ \A a, b \in untitled :
                  a < b => ~StrLess(ServerValue(screenshotEntries[b].Headers),
                                    ServerValue(screenshotEntries[a].Headers))

(* C5: two kept records with the same lower-cased title and, when they    *)
(* have no title, the same lower-cased server header, are in the sorted   *)
(* list in the order the scan produced them.                              *)
SortStable ==
    pc = "check" =>
        \A a, b \in 1..Len(screenshotEntries) :
            LET x == screenshotEntries[a]
                y == screenshotEntries[b]
            IN  ( /\ a < b
                  /\ ToLower(x.PageTitle) = ToLower(y.PageTitle)
                  /\ x.PageTitle = << >> =>
                        ServerValue(x.Headers) = ServerValue(y.Headers) )
                => ScanPosition(x.URL) < ScanPosition(y.URL)

(* C6: when the scan ends with nothing kept, the run stops at the empty   *)
(* check: no page is rendered or written, the paginator is never entered  *)
(* (so no remainder by a pageCount of 0 is taken), an error is logged and *)
(* the run ends by returning, not by log.Fatal.                           *)
EmptyHaltLaw ==
    /\ EmptyAfterScan =>
          /\ pc \in { "sortTitle", "findIndex", "sortServer", "check", "halted" }
          /\ files = {}
          /\ pages = << >>
          /\ \A m \in 1..Len(log) : log[m].level # "fatal"
          /\ pc = "halted" =>
                log = << [level |-> "error", stage |-> "empty", count |-> 0] >>
    /\ pc = "halted" => EmptyAfterScan
    /\ pc = "render" => pageCount >= 1

\* Two records, both outside [200, 300), without --include-errors.
EmptyHaltWitness ==
    /\ pc = "halted"
    /\ Cardinality(store) = 2
    /\ errorsIgnored = 2
    /\ ~includeErrors

(* C7: a page whose template execution or file write failed has an error  *)
(* logged for it, and every file written holds the page its name numbers. *)
RenderFailureReported ==
    pc \in { "render", "done" } =>
        /\ \A k \in 1..Len(pages) :
              LET p == pages[k].PageNumber
              IN  (~\E f \in files : f.name = ReportFile(p) /\ f.complete)
                  => \E m \in 1..Len(log) :
                        \/ log[m] = [level |-> "error", stage |-> "render", page |-> p]
                        \/ log[m] = [level |-> "error", stage |-> "write", page |-> p]
        /\ \A f \in files : f.name = ReportFile(f.data.PageNumber)

(* C8: a record whose screenshot path os.Stat cannot probe (an error that *)
(* is not "does not exist") ends the run with a fatal error, no page is   *)
(* written and the record is not kept; the placeholder is given only to   *)
(* records whose file does not exist.                                     *)
ProbeFailureAborts ==
    /\ \A k \in 1..cursor :
          LET v == StoreValue(AscendOrder(store)[k])
          IN  (v # Malformed /\ Stat(v.ScreenshotFile) = "EACCES") =>
                  /\ pc = "fatal"
                  /\ files = {}
                  /\ \A m \in 1..Len(screenshotEntries) :
                        screenshotEntries[m].URL # v.URL
    /\ \A m \in 1..Len(screenshotEntries) :
          screenshotEntries[m].ScreenshotFile = PlaceHolderImage =>
              Stat(StoreValue(screenshotEntries[m].URL).ScreenshotFile) = "ENOENT"

(* C9, as the claim has it: the records the second sort arranges are in   *)
(* ascending order of the lower-cased value of their FIRST server header. *)
SortedByFirstServer ==
    pc = "check" =>
        \A a, b \in 1..lastSortIndex :
            a < b => ~StrLess(FirstServerOf(screenshotEntries[b].Headers),
                              FirstServerOf(screenshotEntries[a].Headers))

(* C9, amended: the records the second sort arranges are in ascending     *)
(* order of the lower-cased value of their LAST server header ("" when    *)
(* they have none).                                                       *)
SortedByLastServer ==
    pc = "check" =>
        \A a, b \in 1..lastSortIndex :
            a < b => ~StrLess(LastServerOf(screenshotEntries[b].Headers),
                              LastServerOf(screenshotEntries[a].Headers))

\* Two records the second sort arranged, the earlier one with two server
\* headers: it is first by its last header and would be second by its first.
SortedByLastServerWitness ==
    /\ pc = "check"
    /\ \E a, b \in 1..lastSortIndex :
          /\ a < b
          /\ Cardinality(ServerIndices(screenshotEntries[a].Headers)) = 2
          /\ StrLess(LastServerOf(screenshotEntries[a].Headers),
                     LastServerOf(screenshotEntries[b].Headers))
          /\ StrLess(FirstServerOf(screenshotEntries[b].Headers),
                     FirstServerOf(screenshotEntries[a].Headers))

(* C10: every run ends (fatal error, empty halt, or the report written);  *)
(* each iteration of the two pagination loops moves the start index on by *)
(* pageSize, and each loop runs ceil(N / pageSize) times.                 *)
TerminationLaw ==
    /\ <>Terminated
    /\ [](pc = "project" =>
            /\ pageCount = CeilDiv(Len(screenshotEntries), pageSize)
            /\ Len(pageIndex) = pageCount
            /\ i = pageCount * pageSize)
    /\ [](pc = "done" =>
            /\ pageCount >= 1
            /\ Len(pages) = CeilDiv(Len(screenshotEntries), pageSize)
            /\ pageno = pageCount
            /\ pages[Len(pages)].PageNumber = pageCount - 1
            /\ i = pageCount * pageSize)
    /\ [][(pc \in { "index", "render" } /\ pc' = pc) =>
            (i' = i + pageSize /\ pageno' = pageno + 1)]_vars

\* A finished run of three kept records with page size two: two iterations.
TerminationWitness ==
    /\ pc = "done"
    /\ Len(screenshotEntries) = 3
    /\ pageSize = 2
    /\ pageno = 2
    /\ i = 4

====
